---- MODULE Spec2Model ----
(***************************************************************************)
(* A model of bbackup (src/bbackup.py): one run of main()/do_backup() as   *)
(* a state machine, together with the child processes it spawns, the log   *)
(* file it writes, the console, and the delivery of SIGINT/SIGTERM.        *)
(***************************************************************************)
EXTENDS Integers, Sequences, FiniteSets, TLC

\* ------------------------------------------------------------------ bounds

\* Total number of bytes the children of one run may emit on their pipes.
MaxBytes == 2
\* Longest host name (in characters) considered for the prune glob.
MaxHostLen == 3

\* --------------------------------------------------------------- variables

VARIABLES
    pc,             \* position of the main thread in main()/do_backup()/tee()
    isDir,          \* config_dir.is_dir()
    globalDoc,      \* <parent>/config.yaml   [exists, map]
    localDoc,       \* <config_dir>/config.yaml [exists, map]
    config,         \* the merged config dict of do_backup
    oldLog,         \* content of logs/log when the run started
    dry_run,        \* args.dry_run
    routeTable,     \* what `ip --json route list` reports
    neighTable,     \* what `ip --json neigh` reports
    borg_env,       \* the dict borg_env of do_backup
    launched,       \* per step started: the args and env of its child
    alive,          \* the step children started and not yet terminated
    logFile,        \* content of logs/log on disk
    fhOpen,         \* log_fh is open
    fhBuf,          \* bytes written to log_fh and not yet flushed
    console,        \* everything written to sys.stdout
    child,          \* the child process in flight [kind, state, code, killed]
    pipe,           \* bytes in the child's stdout pipe, not yet read
    emitted,        \* bytes the current tee child has emitted so far
    nbytes,         \* bytes emitted by all children of the run
    data,           \* tee's local variable `data`
    step,           \* the step tee is running ("none" outside tee)
    conMark,        \* Len(console) when the current tee call started
    logMark,        \* bytes handed to log_fh when the current tee call started
    results,        \* create_result, prune_result, compact_result, logrotate_result
    spawned,        \* number of child processes started, per kind
    borg_version,   \* get_borg_version(borg_path)
    do_compaction,  \* "unset" | "yes" | "no"
    gate,           \* "none" | "proceed" | "declined" | "error"
    router_mac,     \* the address get_router_mac_address returned ("" if none)
    signals,        \* number of signals handled
    exitKind,       \* how the process ended
    retVal,         \* value returned by do_backup ("none" kinds: 0)
    exitCode,       \* exit status of the process
    hostname,       \* this host's name (borg's {hostname})
    repo,           \* archives in the repository: [name, owner]
    matched         \* archives selected by the last prune glob

vars == << pc, isDir, globalDoc, localDoc, config, oldLog, dry_run,
           routeTable, neighTable, borg_env, launched, alive, logFile, fhOpen,
           fhBuf, console, child, pipe, emitted, nbytes, data, step, conMark,
           logMark, results, spawned, borg_version, do_compaction, gate,
           router_mac, signals, exitKind, retVal, exitCode, hostname, repo,
           matched >>

fileVars == << logFile, fhOpen, fhBuf >>
childVars == << child, pipe, emitted, nbytes >>
teeVars == << data, step, conMark, logMark >>
exitVars == << exitKind, retVal, exitCode >>
repoVars == << hostname, repo, matched >>
docVars == << isDir, globalDoc, localDoc, oldLog, dry_run, routeTable,
             neighTable >>
runVars == << borg_env, launched, alive >>
gateVars == << gate, router_mac >>

\* ----------------------------------------------------------------- values

EmptyMap == [k \in {} |-> TRUE]

Keys == {"repo-path", "mac-whitelist", "compact", "variable-setter-script-path"}

\* Return codes a child can report: Popen.returncode is -N for a child
\* killed by signal N, otherwise the child's exit status.
Codes == {-9, 0, 1, 2}

Bytes == {"a", "b"}

\* state: "running" | "closed" (stdout closed, still running) | "exited" |
\*        "killed" (terminated by this process)
NoChild == [kind |-> "none", state |-> "none", code |-> 0]

Kinds == {"script", "ip-route", "ping", "ip-neigh", "create", "prune",
          "version", "compact", "logrotate"}

StepKinds == {"create", "prune", "version", "compact", "logrotate"}

TeePcs == {"TeeRead", "TeeConsole", "TeeLog", "TeeWait"}

\* ------------------------------------------------------ config documents

\* The maps with keys among ks and, for each key k, a value of V[k].
RECURSIVE MapsOver(_, _)
MapsOver(V, ks) ==
    IF ks = {} THEN {EmptyMap}
    ELSE LET k == CHOOSE x \in ks : TRUE
             rest == MapsOver(V, ks \ {k})
         IN  rest \cup {(k :> v) @@ m : v \in V[k], m \in rest}

Absent == [exists |-> FALSE, map |-> EmptyMap]

DocsOver(V, ks) == {Absent} \cup {[exists |-> TRUE, map |-> m] : m \in MapsOver(V, ks)}

\* Values of the config keys in the documents of the merge specification.
MergeValues ==
    [k \in Keys |->
        CASE k = "repo-path" -> {"repoA", "repoB"}
          [] k = "mac-whitelist" -> {<<"AA:BB">>, <<"aa:bb", "CC:DD">>}
          [] k = "compact" -> {TRUE, FALSE}
          [] k = "variable-setter-script-path" -> {"setenv.sh"}]

\* Values of the config keys in the documents of a pipeline run.
RunValues ==
    [k \in Keys |->
        CASE k = "repo-path" -> {"repoA"}
          [] k = "mac-whitelist" -> {<<"AA:BB", "cc:dd">>}
          [] k = "compact" -> {TRUE, FALSE}
          [] k = "variable-setter-script-path" -> {"setenv.sh"}]

MergeDocs == DocsOver(MergeValues, Keys)
RunGlobalDocs == DocsOver(RunValues, {"repo-path"})
RunLocalDocs == DocsOver(RunValues, Keys \ {"repo-path"})

\* read_config: the mapping of the document, {} when the file is absent.
read_config(doc) == IF doc.exists THEN doc.map ELSE EmptyMap

\* dict.update with the precedence reversed: the global value wins.
update_global_wins(g, l) ==
    [k \in DOMAIN g \cup DOMAIN l |-> IF k \in DOMAIN g THEN g[k] ELSE l[k]]

\* dict.update: per-key override, whole values.
update(g, l) ==
    [k \in DOMAIN g \cup DOMAIN l |-> IF k \in DOMAIN l THEN l[k] ELSE g[k]]

\* config.get(key, default)
get(cfg, key, default) == IF key \in DOMAIN cfg THEN cfg[key] ELSE default

\* ------------------------------------------------------------- sequences

SeqsUpTo(S, n) == UNION {[1..k -> S] : k \in 0..n}

IsPrefix(s, t) == Len(s) <= Len(t) /\ SubSeq(t, 1, Len(s)) = s

Range(s) == {s[i] : i \in DOMAIN s}

From(s, n) == SubSeq(s, n + 1, Len(s))

\* max() of a non-empty set of integers
Max(S) == CHOOSE x \in S : \A y \in S : y <= x

\* ----------------------------------------------------------- network gate

\* Longest routing table / neighbour table the gate is given.
MaxTable == 2

\* str.lower() on the link-layer addresses of the model
lower(m) ==
    CASE m = "AA:BB" -> "aa:bb"
      [] m = "CC:DD" -> "cc:dd"
      [] OTHER -> m

RouteEntries == {[dst |-> "default", gateway |-> "gw1"],
                 [dst |-> "default", gateway |-> "gw2"],
                 [dst |-> "10.0.0.0/8", gateway |-> "gw1"]}

NeighEntries == {[dst |-> "gw1", lladdr |-> "AA:BB"],
                 [dst |-> "gw1", lladdr |-> "aa:bb"],
                 [dst |-> "gw1", lladdr |-> "ee:ff"],
                 [dst |-> "gw2", lladdr |-> "ee:ff"]}

RouteTables == SeqsUpTo(RouteEntries, MaxTable)
NeighTables == SeqsUpTo(NeighEntries, MaxTable)

\* [route["gateway"] for route in routes if route["dst"] == "default"]
gateway_ips(routes) ==
    LET sel == SelectSeq(routes, LAMBDA r : r.dst = "default")
    IN  [i \in DOMAIN sel |-> sel[i].gateway]

\* [n["lladdr"] for n in neighbours if n["dst"] == gateway_ip]
gateway_macs(neighbours, ip) ==
    LET sel == SelectSeq(neighbours, LAMBDA n : n.dst = ip)
    IN  [i \in DOMAIN sel |-> sel[i].lladdr]

\* A resolver that counts the entries found, repeated ones included.
get_router_mac_address_len(routes, neighbours) ==
    LET ips == gateway_ips(routes)
    IN  IF Len(ips) = 0
        THEN [error |-> "No gateway IP", mac |-> "", ran |-> {"ip-route"}]
        ELSE IF Len(ips) > 1
        THEN [error |-> "Multiple gateway IPs", mac |-> "", ran |-> {"ip-route"}]
        ELSE
          LET macs == gateway_macs(neighbours, ips[1])
              all == {"ip-route", "ping", "ip-neigh"}
          IN  IF Len(macs) = 0
              THEN [error |-> "No gateway MAC", mac |-> "", ran |-> all]
              ELSE IF Len(macs) > 1
              THEN [error |-> "Multiple gateway MACs", mac |-> "", ran |-> all]
              ELSE [error |-> "", mac |-> lower(macs[1]), ran |-> all]

\* get_router_mac_address: the error raised ("" when none), the address
\* returned, and the children it ran.
get_router_mac_address(routes, neighbours) ==
    LET ips == gateway_ips(routes)
        n_distinct_ips == Cardinality(Range(ips))
    IN  IF n_distinct_ips = 0
        THEN [error |-> "No gateway IP", mac |-> "", ran |-> {"ip-route"}]
        ELSE IF n_distinct_ips > 1
        THEN [error |-> "Multiple gateway IPs", mac |-> "", ran |-> {"ip-route"}]
        ELSE
          LET macs == gateway_macs(neighbours, ips[1])
              n_distinct_macs == Cardinality(Range(macs))
              all == {"ip-route", "ping", "ip-neigh"}
          IN  IF n_distinct_macs = 0
              THEN [error |-> "No gateway MAC", mac |-> "", ran |-> all]
              ELSE IF n_distinct_macs > 1
              THEN [error |-> "Multiple gateway MACs", mac |-> "", ran |-> all]
              ELSE [error |-> "", mac |-> lower(macs[1]), ran |-> all]

\* A gate that compares with the allow-list entries as they are written.
in_whitelist_exact(mac, whitelist) == mac \in Range(whitelist)

\* A gate that admits every resolved address.
in_whitelist_any(mac, whitelist) == TRUE

\* router_mac in map(lambda x: x.lower(), config["mac-whitelist"])
in_whitelist(mac, whitelist) ==
    mac \in {lower(whitelist[i]) : i \in DOMAIN whitelist}

\* ---------------------------------------------------------- archive names

HostChars == {"a", "-"}

\* borg's {now}: an ISO timestamp, which itself contains '-'
Timestamps == {<<"1", "-", "2">>, <<"3">>}

HostNames == {h \in SeqsUpTo(HostChars, MaxHostLen) :
                 h # <<>> /\ h[1] # "-" /\ h[Len(h)] # "-"}

\* borg_repo + "::{hostname}-{now}", the archive part
archive_name(h, now) == h \o <<"-">> \o now

\* "{hostname}-*"
prune_glob(h) == h \o <<"-", "*">>

\* shell-style pattern match of --glob-archives: '*' matches any run of
\* characters, every other character matches itself.
RECURSIVE glob_match(_, _)
glob_match(pat, s) ==
    IF pat = <<>> THEN s = <<>>
    ELSE IF Head(pat) = "*"
         THEN glob_match(Tail(pat), s) \/ (s # <<>> /\ glob_match(pat, Tail(s)))
         ELSE s # <<>> /\ Head(s) = Head(pat) /\ glob_match(Tail(pat), Tail(s))

\* ------------------------------------------ child arguments, environment

\* os.environ of the bbackup process
OsEnviron == ("PATH" :> "/usr/bin") @@ ("SSH_AUTH_SOCK" :> "login-agent")

\* get_variable_from_shell_script(variable_name, script): what the script
\* sets the variable to
get_variable_from_shell_script(variable_name) ==
    CASE variable_name = "SSH_AUTH_SOCK" -> "script-agent"
      [] variable_name = "DBUS_SESSION_BUS_ADDRESS" -> "script-bus"

\* dict(os.environ, BORG_PASSCOMMAND=..., BORG_RELOCATED_REPO_ACCESS_IS_OK=
\* "yes") (lines 96-102)
base_env ==
    update(OsEnviron,
           ("BORG_PASSCOMMAND" :> "secret-tool lookup borg-config job")
           @@ ("BORG_RELOCATED_REPO_ACCESS_IS_OK" :> "yes"))

\* borg_env after the first n of the script's variables have been set
\* (lines 103-110); no logging.conf exists (lines 112-115).
script_env(n) ==
    LET names == <<"SSH_AUTH_SOCK", "DBUS_SESSION_BUS_ADDRESS">>
    IN  update(base_env,
               [v \in {names[i] : i \in 1..n} |->
                   get_variable_from_shell_script(v)])

\* lines 91-95
extra_params(cfg, dry) ==
    (IF "remote-path" \in DOMAIN cfg
     THEN <<"--remote-path", cfg["remote-path"]>> ELSE <<>>)
    \o (IF dry THEN <<"--dry-run">> ELSE <<>>)

\* The command line of each step's child, options without a bearing on
\* the run left out: create_args (150-171), prune_args (179-197), the
\* compact call (207), get_borg_version (369), logrotate_args (232-236,
\* as run with --quiet-logrotate).
step_args(kind, cfg, dry) ==
    CASE kind = "create" ->
           <<"borg", "create">> \o extra_params(cfg, dry)
           \o <<cfg["repo-path"], "::{hostname}-{now}">>
      [] kind = "prune" ->
           <<"borg", "prune", "--glob-archives", "{hostname}-*">>
           \o extra_params(cfg, dry) \o <<cfg["repo-path"]>>
      [] kind = "compact" -> <<"borg", "--verbose", "compact", cfg["repo-path"]>>
      [] kind = "version" -> <<"borg", "--version">>
      [] kind = "logrotate" ->
           <<"logrotate", "--state", "logrotate-state">>
           \o (IF dry THEN <<"--debug">> ELSE <<>>) \o <<"logrotate.conf">>

\* Every child is handed borg_env, except the compact child.
step_env_compact_bare(kind, benv) ==
    IF kind \in {"create", "prune"} THEN benv ELSE OsEnviron

\* The environment of each step's child: env=borg_env for the children
\* run through tee (lines 171, 197, 208); subprocess.check_output (369)
\* and subprocess.run (239) get no env and inherit os.environ.
step_env(kind, benv) ==
    IF kind \in {"create", "prune", "compact"} THEN benv ELSE OsEnviron

\* The record of a child's launch.
launch(kind, cfg, dry, benv) ==
    [args |-> step_args(kind, cfg, dry), env |-> step_env(kind, benv)]

\* ------------------------------------------------------------------- Init

\* What logs/log may hold from earlier runs when this run starts.
OldLogs == {<<"old">>}

InitRest ==
    /\ pc = "Start"
    /\ config = EmptyMap
    /\ logFile = oldLog
    /\ fhOpen = FALSE
    /\ fhBuf = <<>>
    /\ console = <<"bbackup initializing">>
    /\ child = NoChild
    /\ pipe = <<>>
    /\ emitted = <<>>
    /\ nbytes = 0
    /\ data = ""
    /\ step = "none"
    /\ conMark = 0
    /\ logMark = 0
    /\ results = EmptyMap
    /\ spawned = [k \in Kinds |-> 0]
    /\ borg_version = <<>>
    /\ do_compaction = "unset"
    /\ gate = "none"
    /\ router_mac = ""
    /\ signals = 0
    /\ exitKind = "running"
    /\ retVal = 0
    /\ exitCode = 0
    /\ borg_env = EmptyMap
    /\ launched = EmptyMap
    /\ alive = {}
    /\ repo = {}
    /\ matched = {}

\* The network a run that never consults the gate is given.
HomeNetwork ==
    [routes |-> <<[dst |-> "default", gateway |-> "gw1"]>>,
     neighbours |-> <<[dst |-> "gw1", lladdr |-> "AA:BB"]>>]

\* The networks of a pipeline run: the home network, a foreign one, and
\* one for each way get_router_mac_address fails.
RunNetworks ==
    {HomeNetwork,
     [routes |-> HomeNetwork.routes,
      neighbours |-> <<[dst |-> "gw1", lladdr |-> "ee:ff"]>>],
     [routes |-> <<>>, neighbours |-> <<>>],
     [routes |-> <<[dst |-> "default", gateway |-> "gw1"],
                   [dst |-> "default", gateway |-> "gw2"]>>,
      neighbours |-> <<>>],
     [routes |-> HomeNetwork.routes, neighbours |-> <<>>],
     [routes |-> HomeNetwork.routes,
      neighbours |-> <<[dst |-> "gw1", lladdr |-> "AA:BB"],
                       [dst |-> "gw1", lladdr |-> "ee:ff"]>>]}

\* The state once main() has installed the signal handlers (line 39) and
\* parsed the command line (line 57), --dry-run given or not.
InitRun(dry) ==
    /\ isDir \in BOOLEAN
    /\ globalDoc \in (IF isDir THEN RunGlobalDocs ELSE {Absent})
    /\ localDoc \in (IF isDir THEN RunLocalDocs ELSE {Absent})
    /\ oldLog \in OldLogs
    /\ dry_run = dry
    /\ \E net \in (IF "mac-whitelist" \in DOMAIN localDoc.map
                   THEN RunNetworks ELSE {HomeNetwork}) :
         /\ routeTable = net.routes
         /\ neighTable = net.neighbours
    /\ hostname = <<"a">>
    /\ InitRest

\* A run without --dry-run.
Init == InitRun(FALSE)

\* A run with --dry-run.
InitDry == InitRun(TRUE)

\* ------------------------------------------------------- logging, exiting

\* log(message, None) for each message
LogConsole(msgs) ==
    /\ console' = console \o msgs
    /\ UNCHANGED fileVars

\* log(message, log_fh) for each message: print, write, flush
LogBoth(msgs) ==
    /\ console' = console \o msgs
    /\ logFile' = logFile \o fhBuf \o msgs
    /\ fhBuf' = <<>>
    /\ fhOpen' = fhOpen

\* log(message, log_fh) for each message, log_fh being left open
LogBothLeaveOpen(msgs) ==
    /\ console' = console \o msgs
    /\ logFile' = logFile \o fhBuf \o msgs
    /\ fhBuf' = <<>>
    /\ fhOpen' = fhOpen

\* log(message, log_fh) for each message, then the with block closes log_fh
LogBothClose(msgs) ==
    /\ console' = console \o msgs
    /\ logFile' = logFile \o fhBuf \o msgs
    /\ fhBuf' = <<>>
    /\ fhOpen' = FALSE

\* sys.exit(n) / exit status of an interpreter ending with return value n
status(n) == n % 256

Exit(kind, ret, code) ==
    /\ pc' = "Done"
    /\ exitKind' = kind
    /\ retVal' = ret
    /\ exitCode' = code

Running == UNCHANGED exitVars

Spawn(kind) ==
    /\ child' = [kind |-> kind, state |-> "running", code |-> 0]
    /\ pipe' = <<>>
    /\ emitted' = <<>>
    /\ nbytes' = nbytes
    /\ spawned' = [spawned EXCEPT ![kind] = @ + 1]
    /\ launched' = launched @@ (kind :> launch(kind, config, dry_run, borg_env))
    /\ alive' = alive \cup {kind}

\* -------------------------------------------------- do_backup, pre-flight

\* lines 75-80
CheckDir ==
    /\ pc = "Start"
    /\ IF isDir
       THEN /\ pc' = "Config"
            /\ Running
            /\ UNCHANGED console
       ELSE /\ console' = Append(console, "Configuration path: Exiting.")
            /\ Exit("sysexit", 0, 1)
    /\ UNCHANGED << docVars, config, fileVars, childVars, teeVars, results,
                    spawned, borg_version, do_compaction, gateVars, signals,
                    repoVars, runVars >>

\* A pre-flight check that also insists on the 'compact' key.
missing_key_strict(cfg) ==
    "repo-path" \notin DOMAIN cfg \/ "compact" \notin DOMAIN cfg

\* config["repo-path"] raises KeyError (line 88)
missing_key(cfg) == "repo-path" \notin DOMAIN cfg

\* lines 82-89
ResolveConfig ==
    /\ pc = "Config"
    /\ config' = update(read_config(globalDoc), read_config(localDoc))
    /\ IF missing_key(config')
       THEN Exit("KeyError", 0, 1)
       ELSE pc' = "Env" /\ Running
    /\ UNCHANGED << docVars, fileVars, console, childVars, teeVars, results,
                    spawned, borg_version, do_compaction, gateVars, signals,
                    repoVars, runVars >>

\* lines 91-119; get_variable_from_shell_script (275-297) runs the script
\* once per variable and check_output raises if it exits non-zero.
BuildEnv ==
    /\ pc = "Env"
    /\ IF "variable-setter-script-path" \in DOMAIN config
       THEN \E failing \in {0, 1, 2} :
              /\ spawned' = [spawned EXCEPT
                               !["script"] = @ + (IF failing = 1 THEN 1 ELSE 2)]
              /\ borg_env' = script_env(IF failing = 0 THEN 2 ELSE failing - 1)
              /\ IF failing = 0
                 THEN pc' = "Open" /\ Running
                 ELSE Exit("CalledProcessError", 0, 1)
       ELSE /\ pc' = "Open"
            /\ Running
            /\ borg_env' = base_env
            /\ UNCHANGED spawned
    /\ UNCHANGED << docVars, config, fileVars, console, childVars, teeVars,
                    results, borg_version, do_compaction, gateVars, signals,
                    repoVars, launched, alive >>

\* open(log_file, "bw"): the file as the open call leaves it
open_bw(content) == <<>>

\* lines 121-126
OpenLog ==
    /\ pc = "Open"
    /\ console' = Append(console, "Starting backup at")
    /\ logFile' = Append(open_bw(logFile), "Starting backup at")
    /\ fhBuf' = <<>>
    /\ fhOpen' = TRUE
    /\ pc' = IF "mac-whitelist" \in DOMAIN config THEN "Gate" ELSE "Create"
    /\ Running
    /\ UNCHANGED << docVars, config, childVars, teeVars, results, spawned,
                    borg_version, do_compaction, gateVars, signals, repoVars, runVars >>

\* lines 126-142, with get_router_mac_address (319-352)
Gate ==
    /\ pc = "Gate"
    /\ LET r == get_router_mac_address(routeTable, neighTable)
         IN  /\ spawned' = [k \in Kinds |->
                              spawned[k] + (IF k \in r.ran THEN 1 ELSE 0)]
             /\ router_mac' = r.mac
             /\ IF r.error # ""
                THEN /\ LogBothClose(<<r.error>>)
                     /\ gate' = "error"
                     /\ Exit("RuntimeError", 0, 1)
                ELSE IF in_whitelist(r.mac, config["mac-whitelist"])
                THEN /\ LogBoth(<<"Router MAC in whitelist">>)
                     /\ gate' = "proceed"
                     /\ pc' = "Create"
                     /\ Running
                ELSE /\ LogBothClose(<<"Router MAC not in whitelist">>)
                     /\ gate' = "declined"
                     /\ Exit("return", 0, status(0))
    /\ UNCHANGED << docVars, config, childVars, teeVars, results,
                    borg_version, do_compaction, signals, repoVars, runVars >>

\* ---------------------------------------------------------- child process

\* The child writes one byte to its stdout/stderr, which tee reads.
ChildEmit ==
    /\ pc \in TeePcs
    /\ child.state = "running"
    /\ nbytes < MaxBytes
    /\ \E b \in Bytes :
         /\ pipe' = Append(pipe, b)
         /\ emitted' = Append(emitted, b)
    /\ nbytes' = nbytes + 1
    /\ UNCHANGED << pc, docVars, config, fileVars, console, child, teeVars,
                    results, spawned, borg_version, do_compaction, gateVars,
                    signals, exitVars, repoVars, runVars >>

\* The child closes its stdout and stderr and keeps running.
ChildClose ==
    /\ pc \in TeePcs
    /\ child.state = "running"
    /\ child' = [child EXCEPT !.state = "closed"]
    /\ UNCHANGED << pc, docVars, config, fileVars, console, pipe, emitted,
                    nbytes, teeVars, results, spawned, borg_version,
                    do_compaction, gateVars, signals, exitVars, repoVars, runVars >>

\* The child terminates, by itself or killed by someone else's signal.
ChildExit ==
    /\ pc # "Done"
    /\ child.state \in {"running", "closed"}
    /\ \E c \in Codes : child' = [child EXCEPT !.state = "exited", !.code = c]
    /\ alive' = alive \ {child.kind}
    /\ UNCHANGED << pc, docVars, config, fileVars, console, pipe, emitted,
                    nbytes, teeVars, results, spawned, borg_version,
                    do_compaction, gateVars, signals, exitVars, repoVars,
                    borg_env, launched >>

\* -------------------------------------------------------------------- tee

\* A step's log line, then the call of tee: Popen (line 301)
StartTee(s, msg) ==
    /\ LogBoth(<<msg>>)
    /\ Spawn(s)
    /\ step' = s
    /\ data' = ""
    /\ conMark' = Len(console')
    /\ logMark' = Len(logFile')
    /\ pc' = "TeeRead"
    /\ Running
    /\ UNCHANGED << docVars, config, results, borg_version, do_compaction,
                    gateVars, signals, repoVars, borg_env >>

\* lines 148-173
StartCreate == pc = "Create" /\ StartTee("create", "Starting backup to")

\* lines 175-199
StartPrune == pc = "Prune" /\ StartTee("prune", "Pruning repository")

\* lines 203-211
StartCompact == pc = "Compact" /\ StartTee("compact", "Compacting repository")

\* popen.stdout.read(1) (lines 307-309): one byte, or b"" at end-of-stream
TeeRead ==
    /\ pc = "TeeRead"
    /\ IF pipe # <<>>
       THEN /\ data' = Head(pipe)
            /\ pipe' = Tail(pipe)
            /\ pc' = "TeeConsole"
       ELSE /\ child.state \in {"closed", "exited"}
            /\ data' = ""
            /\ pipe' = pipe
            /\ pc' = "TeeWait"
    /\ UNCHANGED << docVars, config, fileVars, console, child, emitted,
                    nbytes, step, conMark, logMark, results, spawned,
                    borg_version, do_compaction, gateVars, signals, exitVars,
                    repoVars, runVars >>

\* sys.stdout.buffer.write(data); sys.stdout.flush() (lines 310-311)
TeeConsole ==
    /\ pc = "TeeConsole"
    /\ console' = Append(console, data)
    /\ pc' = "TeeLog"
    /\ UNCHANGED << docVars, config, fileVars, childVars, teeVars, results,
                    spawned, borg_version, do_compaction, gateVars, signals,
                    exitVars, repoVars, runVars >>

\* A tee that shows the byte on the console and never writes it to the log.
TeeLogDrop ==
    /\ pc = "TeeLog"
    /\ pc' = "TeeRead"
    /\ UNCHANGED << docVars, config, fileVars, console, childVars, teeVars,
                    results, spawned, borg_version, do_compaction, gateVars,
                    signals, exitVars, repoVars, runVars >>

\* fh.write(data) (line 312)
TeeLog ==
    /\ pc = "TeeLog"
    /\ fhBuf' = Append(fhBuf, data)
    /\ pc' = "TeeRead"
    /\ UNCHANGED << docVars, config, logFile, fhOpen, console, childVars,
                    teeVars, results, spawned, borg_version, do_compaction,
                    gateVars, signals, exitVars, repoVars, runVars >>

\* A pipeline that gives up the archival steps once one reports an error.
continuation_halting(s, rc) ==
    IF rc >= 2 THEN "Summary"
    ELSE CASE s = "create" -> "Prune"
           [] s = "prune" -> "Version"
           [] s = "compact" -> "Summary"

\* Where do_backup goes on when the tee of step s has returned rc
\* (lines 173-175, 199-201, 211-213).
continuation(s, rc) ==
    CASE s = "create" -> "Prune"
      [] s = "prune" -> "Version"
      [] s = "compact" -> "Summary"

\* A tee that returns at end-of-stream without waiting for the child.
TeeReturnAtEof ==
    /\ pc = "TeeWait"
    /\ results' = results @@ (step :> child.code)
    /\ child' = NoChild
    /\ pc' = continuation(step, child.code)
    /\ UNCHANGED << docVars, config, fileVars, console, pipe, emitted,
                    nbytes, teeVars, spawned, borg_version, do_compaction,
                    gateVars, signals, exitVars, repoVars, runVars >>

\* popen.wait(); return popen.returncode (lines 315-316)
TeeWait ==
    /\ pc = "TeeWait"
    /\ child.state = "exited"
    /\ results' = results @@ (step :> child.code)
    /\ child' = NoChild
    /\ pc' = continuation(step, child.code)
    /\ UNCHANGED << docVars, config, fileVars, console, pipe, emitted,
                    nbytes, teeVars, spawned, borg_version, do_compaction,
                    gateVars, signals, exitVars, repoVars, runVars >>

\* ------------------------------------------------- compaction, log rotation

\* What `borg --version` may print: "borg 1.1.18\n", "borg 1.2.0\n",
\* "borg 1.10.0\n".
VersionOutputs ==
    {<<"b", "o", "r", "g", " ", "1", ".", "1", ".", "1", "8", "\n">>,
     <<"b", "o", "r", "g", " ", "1", ".", "2", ".", "0", "\n">>,
     <<"b", "o", "r", "g", " ", "1", ".", "1", "0", ".", "0", "\n">>}

\* str.split(sep)
RECURSIVE split(_, _)
split(str, sep) ==
    IF \A i \in DOMAIN str : str[i] # sep THEN <<str>>
    ELSE LET i == CHOOSE j \in DOMAIN str :
                     str[j] = sep /\ \A k \in 1..(j - 1) : str[k] # sep
         IN  <<SubSeq(str, 1, i - 1)>> \o split(SubSeq(str, i + 1, Len(str)), sep)

digit(c) ==
    CASE c = "0" -> 0 [] c = "1" -> 1 [] c = "2" -> 2 [] c = "3" -> 3
      [] c = "4" -> 4 [] c = "5" -> 5 [] c = "6" -> 6 [] c = "7" -> 7
      [] c = "8" -> 8 [] c = "9" -> 9

\* int(str) of a decimal numeral; surrounding whitespace is ignored
RECURSIVE int(_)
int(str) ==
    IF str # <<>> /\ str[Len(str)] = "\n" THEN int(SubSeq(str, 1, Len(str) - 1))
    ELSE IF Len(str) = 1 THEN digit(str[1])
    ELSE 10 * int(SubSeq(str, 1, Len(str) - 1)) + digit(str[Len(str)])

\* tuple(map(int, output.decode().split(" ")[1].split("."))) (line 370)
get_borg_version(output) ==
    LET parts == split(split(output, " ")[2], ".")
    IN  [i \in DOMAIN parts |-> int(parts[i])]

\* Versions `borg --version` may report.
Versions == {get_borg_version(output) : output \in VersionOutputs}

\* Python's tuple comparison a >= b
RECURSIVE tuple_ge(_, _)
tuple_ge(a, b) ==
    IF b = <<>> THEN TRUE
    ELSE IF a = <<>> THEN FALSE
    ELSE IF Head(a) # Head(b) THEN Head(a) > Head(b)
    ELSE tuple_ge(Tail(a), Tail(b))

\* A decision taken from the version alone.
compaction_decision_by_version(cfg, version) == tuple_ge(version, <<1, 2, 0>>)

\* config.get("compact", borg_version >= (1, 2, 0)) (line 202)
compaction_decision(cfg, version) ==
    get(cfg, "compact", tuple_ge(version, <<1, 2, 0>>))

\* lines 201-203, with get_borg_version (368-370)
GetVersion ==
    /\ pc = "Version"
    /\ spawned' = [spawned EXCEPT !["version"] = @ + 1]
    /\ launched' = launched
                    @@ ("version" :> launch("version", config, dry_run, borg_env))
    /\ \E ok \in BOOLEAN :
         IF ok
         THEN /\ \E output \in VersionOutputs :
                   /\ borg_version' = get_borg_version(output)
                   /\ do_compaction' =
                        IF compaction_decision(config, borg_version')
                        THEN "yes" ELSE "no"
              /\ pc' = IF do_compaction' = "yes" THEN "Compact" ELSE "Summary"
              /\ Running
              /\ UNCHANGED << console, fileVars >>
         ELSE /\ LogBothClose(<<>>)
              /\ Exit("CalledProcessError", 0, 1)
              /\ UNCHANGED << borg_version, do_compaction >>
    /\ UNCHANGED << docVars, config, childVars, teeVars, results, gateVars,
                    signals, repoVars, borg_env, alive >>

\* The names the summary loops read (lines 213-217, 248-253).
SummaryNames == {"create", "prune", "compact"}

\* lines 213-225: the summary inside the with block, then log_fh is closed
Summary ==
    /\ pc = "Summary"
    /\ IF SummaryNames \subseteq DOMAIN results
       THEN /\ LogBothClose(<<"Backup finished", "Prune finished",
                              "Compact finished", "Backup took">>)
            /\ pc' = "Rotate"
            /\ Running
       ELSE /\ LogBothClose(<<>>)
            /\ Exit("UnboundLocalError", 0, 1)
    /\ UNCHANGED << docVars, config, childVars, teeVars, results, spawned,
                    borg_version, do_compaction, gateVars, signals, repoVars, runVars >>

\* lines 226-239: subprocess.run starts logrotate
Rotate ==
    /\ pc = "Rotate"
    /\ LogConsole(<<"Rotating logs">>)
    /\ Spawn("logrotate")
    /\ pc' = "RotateWait"
    /\ Running
    /\ UNCHANGED << docVars, config, teeVars, results, borg_version,
                    do_compaction, gateVars, signals, repoVars, borg_env >>

\* line 239: subprocess.run returns once logrotate has terminated
RotateWait ==
    /\ pc = "RotateWait"
    /\ child.state = "exited"
    /\ results' = results @@ ("logrotate" :> child.code)
    /\ child' = NoChild
    /\ pc' = "Final"
    /\ UNCHANGED << docVars, config, fileVars, console, pipe, emitted,
                    nbytes, teeVars, spawned, borg_version, do_compaction,
                    gateVars, signals, exitVars, repoVars, runVars >>

\* An aggregate that reports the last step's code only.
aggregate_last(r) == r["logrotate"]

\* max(create_result, prune_result, compact_result, logrotate_result)
aggregate(r) == Max({r["create"], r["prune"], r["compact"], r["logrotate"]})

\* lines 241-257, and sys.exit(exit_code) in main (line 59)
Final ==
    /\ pc = "Final"
    /\ LogConsole(<<"Backup and logrotate took", "Backup finished",
                    "Prune finished", "Compact finished",
                    "Rotate logs finished">>)
    /\ Exit("return", aggregate(results), status(aggregate(results)))
    /\ UNCHANGED << docVars, config, childVars, teeVars, results, spawned,
                    borg_version, do_compaction, gateVars, signals, repoVars, runVars >>

\* ---------------------------------------------------------------- signals

\* Signals delivered to one run.
MaxSignals == 2

\* handle_signal (lines 62-69): log, then sys.exit(2). SystemExit unwinds
\* the with blocks the main thread is in: Popen.__exit__ closes the pipe and
\* waits for the child; subprocess.run kills its child first; the with block
\* of do_backup closes log_fh.
Signal ==
    /\ pc # "Done"
    /\ signals < MaxSignals
    /\ signals' = signals + 1
    /\ console' = Append(console, "Backup interrupted by signal")
    /\ IF pc \in TeePcs
       THEN /\ pc' = "SigWait"
            /\ pipe' = <<>>
            /\ Running
            /\ UNCHANGED << child, fileVars, alive >>
       ELSE /\ child' = IF pc = "RotateWait" /\ child.state # "exited"
                        THEN [child EXCEPT !.state = "killed", !.code = -9]
                        ELSE child
            /\ alive' = IF pc = "RotateWait" THEN alive \ {child.kind}
                        ELSE alive
            /\ logFile' = logFile \o fhBuf
            /\ fhBuf' = <<>>
            /\ fhOpen' = FALSE
            /\ Exit("signal", 0, 2)
            /\ UNCHANGED pipe
    /\ UNCHANGED << docVars, config, emitted, nbytes, teeVars, results,
                    spawned, borg_version, do_compaction, gateVars, repoVars,
                    borg_env, launched >>

\* Popen.__exit__ returns once the child has terminated; then the with
\* block of do_backup closes log_fh and the interpreter exits with 2.
SigWait ==
    /\ pc = "SigWait"
    /\ child.state = "exited"
    /\ logFile' = logFile \o fhBuf
    /\ fhBuf' = <<>>
    /\ fhOpen' = FALSE
    /\ Exit("signal", 0, 2)
    /\ UNCHANGED << docVars, config, console, childVars, teeVars, results,
                    spawned, borg_version, do_compaction, gateVars, signals,
                    repoVars, runVars >>

\* ------------------------------------------------------------ the program

Next ==
    \/ CheckDir
    \/ ResolveConfig
    \/ BuildEnv
    \/ OpenLog
    \/ Gate
    \/ StartCreate
    \/ StartPrune
    \/ GetVersion
    \/ StartCompact
    \/ TeeRead
    \/ TeeConsole
    \/ TeeLog
    \/ TeeWait
    \/ ChildEmit
    \/ ChildClose
    \/ ChildExit
    \/ Summary
    \/ Rotate
    \/ RotateWait
    \/ Final
    \/ Signal
    \/ SigWait

Spec == Init /\ [][Next]_vars

\* The same program, run with --dry-run.
SpecDry == InitDry /\ [][Next]_vars

\* ------------------------------------------- config resolution on its own

\* Every pair of documents over MergeValues, resolved by do_backup.
InitMerge ==
    /\ isDir = TRUE
    /\ globalDoc \in MergeDocs
    /\ localDoc \in MergeDocs
    /\ oldLog = <<"old">>
    /\ dry_run = FALSE
    /\ routeTable = HomeNetwork.routes
    /\ neighTable = HomeNetwork.neighbours
    /\ hostname = <<"a">>
    /\ InitRest

NextMerge ==
    \/ CheckDir
    \/ ResolveConfig

SpecMerge == InitMerge /\ [][NextMerge]_vars

\* ------------------------------------------------- the gate on its own

\* A job with an allow-list, on every network up to MaxTable entries per
\* table, run up to the gate's decision.
InitGate ==
    /\ isDir = TRUE
    /\ globalDoc = [exists |-> TRUE, map |-> ("repo-path" :> "repoA")]
    /\ \E w \in MergeValues["mac-whitelist"] :
         localDoc = [exists |-> TRUE, map |-> ("mac-whitelist" :> w)]
    /\ oldLog = <<"old">>
    /\ dry_run = FALSE
    /\ routeTable \in RouteTables
    /\ neighTable \in NeighTables
    /\ hostname = <<"a">>
    /\ InitRest

NextGate ==
    \/ CheckDir
    \/ ResolveConfig
    \/ BuildEnv
    \/ OpenLog
    \/ Gate

SpecGate == InitGate /\ [][NextGate]_vars

\* ------------------------------------------------ the shared repository

\* Archives a repository holds at most.
MaxArchives == 2

\* A host's create step adds its archive (line 169).
CreateArchive ==
    /\ Cardinality(repo) < MaxArchives
    /\ \E h \in HostNames, now \in Timestamps :
         repo' = repo \cup {[name |-> archive_name(h, now), owner |-> h]}
    /\ UNCHANGED << pc, docVars, config, fileVars, console, childVars,
                    teeVars, results, spawned, borg_version, do_compaction,
                    gateVars, signals, exitVars, hostname, matched, runVars >>

\* This host's prune step selects archives by its glob (lines 183-184).
PruneArchives ==
    /\ matched' = {a \in repo : glob_match(prune_glob(hostname), a.name)}
    /\ UNCHANGED << pc, docVars, config, fileVars, console, childVars,
                    teeVars, results, spawned, borg_version, do_compaction,
                    gateVars, signals, exitVars, hostname, repo, runVars >>

InitGlob ==
    /\ isDir = TRUE
    /\ globalDoc = Absent
    /\ localDoc = Absent
    /\ oldLog = <<"old">>
    /\ dry_run = FALSE
    /\ routeTable = HomeNetwork.routes
    /\ neighTable = HomeNetwork.neighbours
    /\ hostname \in HostNames
    /\ InitRest

NextGlob ==
    \/ CreateArchive
    \/ PruneArchives

SpecGlob == InitGlob /\ [][NextGlob]_vars

\* ================================================================ claims

Executed == {k \in {"create", "prune", "compact", "logrotate"} : spawned[k] > 0}

Returned == pc = "Done" /\ exitKind = "return"

\* C1: a run that the gate does not decline and that returns normally
\* returns the maximum of the codes of exactly the steps it executed; a run
\* the gate declines returns 0 and has no step code.
AggregateIsMax ==
    /\ (Returned /\ gate # "declined") =>
          /\ DOMAIN results = Executed
          /\ DOMAIN results # {}
          /\ \E s \in DOMAIN results : retVal = results[s]
          /\ \A s \in DOMAIN results : results[s] <= retVal
    /\ (Returned /\ gate = "declined") =>
          /\ retVal = 0
          /\ exitCode = 0
          /\ DOMAIN results = {}

\* C1 witness: create warned (1), prune succeeded, compaction and rotation
\* ran, and the run returned 1.
AggregateIsMaxWitness ==
    /\ Returned
    /\ gate # "declined"
    /\ DOMAIN results = {"create", "prune", "compact", "logrotate"}
    /\ results["create"] = 1
    /\ results["prune"] = 0
    /\ results["compact"] = 0
    /\ results["logrotate"] = 0
    /\ retVal = 1

\* C2: when the process has ended and some executed step finished with a
\* non-zero return code, the exit status of the process is non-zero.
FailureVisible ==
    (pc = "Done" /\ \E s \in DOMAIN results : results[s] # 0) => exitCode # 0

\* C3: when a MAC allow-list is configured and the resolved gateway MAC is
\* not in it, the run has ended with exit code 0 and no create, prune,
\* version, compact or logrotate child was started.
GateDeclineClean ==
    (/\ router_mac # ""
     /\ "mac-whitelist" \in DOMAIN config
     /\ \A i \in DOMAIN config["mac-whitelist"] :
           lower(config["mac-whitelist"][i]) # router_mac)
    => /\ pc = "Done"
       /\ exitKind = "return"
       /\ retVal = 0
       /\ exitCode = 0
       /\ \A k \in StepKinds : spawned[k] = 0
       /\ child = NoChild
       /\ DOMAIN results = {}

\* C3 witness: the gateway resolved to an address outside the allow-list
\* and the run is over.
GateDeclineWitness ==
    /\ router_mac = "ee:ff"
    /\ gate = "declined"
    /\ pc = "Done"
    /\ spawned["ip-neigh"] = 1

\* C4, in every state: no step is started twice, and the compaction
\* decision is the one the config and the tool version give, whatever the
\* codes of create and prune.
NoRetrySameDecision ==
    /\ \A k \in StepKinds : spawned[k] <= 1
    /\ do_compaction # "unset" =>
          (do_compaction = "yes") =
             (IF "compact" \in DOMAIN config THEN config["compact"]
              ELSE borg_version \in {<<1, 2, 0>>, <<1, 10, 0>>})

\* C4, in every step: when tee returns, do_backup goes on to the next step
\* whatever the code (create -> prune -> version query; compact -> summary),
\* and the summary leads to log rotation exactly when compaction ran,
\* whatever the codes.
StepsFollow ==
    /\ (pc = "TeeWait" /\ pc' \notin {"TeeWait", "SigWait", "Done"}) =>
          pc' = (CASE step = "create" -> "Prune"
                   [] step = "prune" -> "Version"
                   [] step = "compact" -> "Summary")
    /\ (pc = "Version" /\ pc' \notin {"Version", "Done"}) =>
          pc' = (IF do_compaction' = "yes" THEN "Compact" ELSE "Summary")
    /\ (pc = "Summary" /\ pc' # "Summary" /\ signals' = signals) =>
          ((pc' = "Rotate") = (do_compaction = "yes"))

\* C4: a non-zero exit code of a step never prevents the following steps,
\* and no step is executed more than once.
NonZeroDoesNotHalt == [](NoRetrySameDecision) /\ [][StepsFollow]_vars

\* C4 witness: create failed with 2, prune warned with 1, and compaction
\* and log rotation still ran, each once.
NonZeroDoesNotHaltWitness ==
    /\ Returned
    /\ DOMAIN results = {"create", "prune", "compact", "logrotate"}
    /\ results["create"] = 2
    /\ results["prune"] = 1
    /\ \A k \in {"create", "prune", "compact", "logrotate"} : spawned[k] = 1

DocKeys(doc) == IF doc.exists THEN DOMAIN doc.map ELSE {}

\* C5: once resolved, the config is the reference merge of the two
\* documents: the local value for every key of the local document, the
\* global value for every key of the global document alone, the union of
\* the key sets, an absent document counting as empty.
MergeLaw ==
    (pc \notin {"Start", "Config"}) =>
       /\ DOMAIN config = DocKeys(globalDoc) \cup DocKeys(localDoc)
       /\ \A k \in DocKeys(localDoc) : config[k] = localDoc.map[k]
       /\ \A k \in DocKeys(globalDoc) \ DocKeys(localDoc) :
             config[k] = globalDoc.map[k]

\* C5 witness: both documents define the allow-list, with different lists,
\* only the global one defines the repository, and the config is resolved.
MergeLawWitness ==
    /\ pc = "Env"
    /\ globalDoc.exists
    /\ localDoc.exists
    /\ "mac-whitelist" \in DOMAIN globalDoc.map
    /\ "mac-whitelist" \in DOMAIN localDoc.map
    /\ globalDoc.map["mac-whitelist"] # localDoc.map["mac-whitelist"]
    /\ "repo-path" \in DOMAIN globalDoc.map
    /\ "repo-path" \notin DOMAIN localDoc.map
    /\ config["repo-path"] = "repoB"

NoChildEver == child = NoChild /\ \A k \in Kinds : spawned[k] = 0

\* C6, in every state: a run that aborted on the missing key has spawned no
\* child and has left the log file unopened and unmodified.
MissingKeyAbortClean ==
    exitKind = "KeyError" =>
       /\ pc = "Done"
       /\ exitCode # 0
       /\ "repo-path" \notin DOMAIN config
       /\ NoChildEver
       /\ ~fhOpen
       /\ logFile = oldLog

\* C6, in every step: resolution aborts exactly when 'repo-path' is absent
\* from the merged config, and otherwise goes on to build the environment.
MissingKeyOnly ==
    (pc = "Config" /\ pc' # "Config" /\ signals' = signals) =>
       /\ (exitKind' = "KeyError") = ("repo-path" \notin DOMAIN config')
       /\ exitKind' # "KeyError" => (pc' = "Env" /\ exitKind' = "running")

\* C6: a merged config without 'repo-path' aborts the run before any child
\* is spawned and before the log file is opened; no other config condition
\* is checked before the pipeline starts.
MissingRepoAborts == [](MissingKeyAbortClean) /\ [][MissingKeyOnly]_vars

\* C6 witness: the config names a variable-setter script but no repository;
\* the run has aborted and the old log is intact.
MissingRepoAbortsWitness ==
    /\ exitKind = "KeyError"
    /\ "variable-setter-script-path" \in DOMAIN config
    /\ "mac-whitelist" \in DOMAIN config
    /\ oldLog # <<>>
    /\ logFile = oldLog

\* C7: the bytes the log file held when the run started are a prefix of its
\* content at every point of the run.
LogAppendOnly == IsPrefix(oldLog, logFile)

\* C8: the archives this host's prune glob selects are this host's own.
PruneScoped == \A a \in matched : a.owner = hostname

TeeReturned ==
    \/ pc = "Prune" /\ step = "create"
    \/ pc = "Version" /\ step = "prune"
    \/ pc = "Summary" /\ step = "compact"

\* Everything handed to log_fh so far, flushed or not.
Logged == logFile \o fhBuf

\* C9, in every state: when tee has returned, what it wrote to the console
\* and what it wrote to log_fh for the step are both exactly the bytes the
\* child emitted, in order.
TeeCopies ==
    TeeReturned =>
       /\ From(console, conMark) = emitted
       /\ From(Logged, logMark) = emitted
       /\ step \in DOMAIN results
       /\ pipe = <<>>

\* C9, in every step: tee returns only when end-of-stream has been read and
\* the child has terminated, and it returns the child's code.
TeeReturnsAfterExit ==
    (pc = "TeeWait" /\ pc' \in {"Prune", "Version", "Summary"}) =>
       /\ child.state = "exited"
       /\ pipe = <<>>
       /\ data = ""
       /\ step \notin DOMAIN results
       /\ results' = results @@ (step :> child.code)

\* C9: tee is lossless and order-preserving, and returns the child's exit
\* code only after end-of-stream and the child's termination.
TeeLossless == [](TeeCopies) /\ [][TeeReturnsAfterExit]_vars

\* C9 witness: the create child emitted "a" then "b" and tee has returned.
TeeLosslessWitness ==
    /\ pc = "Prune"
    /\ step = "create"
    /\ emitted = <<"a", "b">>
    /\ results["create"] = 1

\* C10: handling a signal ends the process at once with exit code 2,
\* starting no step and neither waiting for nor terminating a running child.
SignalExitsAtOnce ==
    [][signals' > signals =>
          /\ pc' = "Done"
          /\ exitCode' = 2
          /\ spawned' = spawned
          /\ child' = child]_vars

\* The distinct gateways of the default routes, and the distinct link-layer
\* addresses the neighbour table lists for a gateway, as the system reports
\* them.
DefaultGateways ==
    {routeTable[i].gateway :
        i \in {j \in DOMAIN routeTable : routeTable[j].dst = "default"}}

AddressesOf(gw) ==
    {neighTable[i].lladdr :
        i \in {j \in DOMAIN neighTable : neighTable[j].dst = gw}}

GatewayAddresses == UNION {AddressesOf(gw) : gw \in DefaultGateways}

Unambiguous ==
    Cardinality(DefaultGateways) = 1 /\ Cardinality(GatewayAddresses) = 1

\* The gateway's address as the neighbour table spells it.
Resolved == CHOOSE m \in GatewayAddresses : TRUE

\* C11: once the gate has decided, the run proceeds exactly when the
\* lower-cased resolved gateway address equals the lower-cased form of some
\* allow-list entry, whatever the casing of either; otherwise it is declined.
GateCaseFolds ==
    gate \in {"proceed", "declined"} =>
        /\ (gate = "proceed") <=>
              \E i \in DOMAIN config["mac-whitelist"] :
                 lower(config["mac-whitelist"][i]) = lower(Resolved)
        /\ gate = "proceed" => pc # "Done"
        /\ gate = "declined" => pc = "Done"

\* C11 witness: the table reports aa:bb, the allow-list holds AA:BB, and the
\* run proceeds.
GateCaseFoldsWitness ==
    /\ gate = "proceed"
    /\ Unambiguous
    /\ Resolved = "aa:bb"
    /\ config["mac-whitelist"] = <<"AA:BB">>

\* C12: once the gate has run, it has raised an error and ended the run
\* with no step started exactly when the number of distinct default
\* gateways, or of distinct addresses listed for the gateway, is not 1;
\* otherwise it raised nothing and returned that address.
GateErrors ==
    gate # "none" =>
        IF Unambiguous
        THEN /\ gate \in {"proceed", "declined"}
             /\ router_mac = lower(Resolved)
             /\ exitKind \in {"running", "return"}
        ELSE /\ gate = "error"
             /\ pc = "Done"
             /\ exitKind = "RuntimeError"
             /\ exitCode = 1
             /\ \A k \in StepKinds : spawned[k] = 0

\* C12 witness: the default route is listed twice with the same gateway,
\* which counts once, and the gateway has two distinct addresses: an error.
GateErrorsWitness ==
    /\ gate = "error"
    /\ Len(routeTable) = 2
    /\ routeTable[1] = routeTable[2]
    /\ Cardinality(DefaultGateways) = 1
    /\ Cardinality(GatewayAddresses) = 2

\* C13: each create, prune and compact child the run has launched carries
\* --dry-run on its command line exactly when the run was asked for a dry
\* run.
DryRunOnEveryStep ==
    \A k \in DOMAIN launched \cap {"create", "prune", "compact"} :
        ("--dry-run" \in Range(launched[k].args)) <=> dry_run

\* C14: a run that got as far as the compaction decision (its config
\* resolved, the gate was absent or let it proceed, create and prune were
\* run) and that no signal interrupted has, when it ends, closed the log,
\* executed log rotation and returned an exit code, compaction executed or
\* not.
AdmittedRunCompletes ==
    (pc = "Done" /\ signals = 0 /\ do_compaction # "unset") =>
        /\ gate \in {"none", "proceed"}
        /\ exitKind = "return"
        /\ ~fhOpen
        /\ "logrotate" \in DOMAIN results

\* (major, minor, patch) is at least (1, 2, 0), by integer comparison
AtLeast120(v) == v[1] > 1 \/ (v[1] = 1 /\ v[2] >= 2)

\* C15: in a run no signal interrupts, the compaction step is started, or
\* about to be, exactly when 'compact' is set to true, or is unset and the
\* reported version is at least (1, 2, 0) as integers; before the version
\* is known it is not started.
CompactionRule ==
    signals = 0 =>
        IF borg_version = <<>>
        THEN spawned["compact"] = 0
        ELSE (pc = "Compact" \/ spawned["compact"] = 1) <=>
                 IF "compact" \in DOMAIN config
                 THEN config["compact"]
                 ELSE AtLeast120(borg_version)

\* C15 witness: compact: false with borg 1.10.0, and the run has gone past
\* the compaction step without starting it.
CompactionRuleWitness ==
    /\ pc = "Summary"
    /\ "compact" \in DOMAIN config
    /\ config["compact"] = FALSE
    /\ borg_version = <<1, 10, 0>>
    /\ spawned["compact"] = 0

\* A child of kind k is started in this step.
Starts(k) == spawned'[k] > spawned[k]

\* The steps that must have returned before a child of kind k is started.
Before(k) ==
    CASE k = "prune" -> {"create"}
      [] k = "compact" -> {"create", "prune"}
      [] k = "logrotate" ->
           {"create", "prune"}
           \cup (IF do_compaction = "yes" THEN {"compact"} ELSE {})

StartsInOrder(k) == Starts(k) => (alive = {} /\ Before(k) \subseteq DOMAIN results)

\* C16: at most one step child is alive at any time, and a step's child is
\* started only when no step child is alive and the steps before it have
\* returned: create before prune, prune before compaction, and create,
\* prune and (when it is run) compaction before log rotation.
StrictSequence ==
    /\ [](Cardinality(alive) <= 1)
    /\ [][\A k \in {"prune", "compact", "logrotate"} : StartsInOrder(k)]_vars

\* C16 witness: the prune child is alive, alone, create having returned.
StrictSequenceWitness ==
    /\ alive = {"prune"}
    /\ child.kind = "prune"
    /\ "create" \in DOMAIN results

\* C17: whenever the logrotate child exists, log_fh is closed with nothing
\* left in its buffer, and from the start of log rotation on this process
\* writes nothing to the log file.
RotateAfterClose ==
    /\ [](child.kind = "logrotate" => (~fhOpen /\ fhBuf = <<>>))
    /\ [][spawned["logrotate"] > 0 => logFile' = logFile]_vars

\* C17 witness: logrotate is running and the handle is closed.
RotateAfterCloseWitness ==
    /\ child.kind = "logrotate"
    /\ child.state = "running"
    /\ ~fhOpen

\* C18: whenever tee is about to read the next chunk, the bytes of this tee
\* call that have reached the log file are the bytes it has put on the
\* console.
TeeFlushesBoth ==
    pc = "TeeRead" => From(logFile, logMark) = From(console, conMark)

\* C19 as stated: every child the run has launched (create, prune, compact,
\* the version query, logrotate) received the environment mapping borg_env.
EnvToEveryChild ==
    \A k \in DOMAIN launched : launched[k].env = borg_env

\* C19, amended: borg_env is built before the first step and never changed
\* afterwards; the create, prune and compact children all received it, with
\* the secret-lookup command and the relocated-repository flag in it; the
\* version query and logrotate received the environment of the bbackup
\* process itself.
EnvToBorgSteps ==
    /\ [](\A k \in DOMAIN launched :
            IF k \in {"create", "prune", "compact"}
            THEN /\ launched[k].env = borg_env
                 /\ {"BORG_PASSCOMMAND", "BORG_RELOCATED_REPO_ACCESS_IS_OK"}
                       \subseteq DOMAIN launched[k].env
            ELSE launched[k].env = OsEnviron)
    /\ [][pc # "Env" => borg_env' = borg_env]_vars

\* C19 witness: a run with a variable-setter script has launched all five
\* children.
EnvToBorgStepsWitness ==
    /\ DOMAIN launched = StepKinds
    /\ borg_env["SSH_AUTH_SOCK"] = "script-agent"
    /\ launched["compact"].env = borg_env
    /\ launched["logrotate"].env = OsEnviron

====
